---- MODULE Spec2Model ----
(***************************************************************************)
(* Run-Bike-Run series classification (lvermunt/RBR_Klassement).           *)
(*                                                                         *)
(* The model follows calculate_points_for_year (classification/analyse.py):*)
(* every race of the season is scored by ResultScorer.calculate_points,    *)
(* the scored tables are outer-merged on 'Naam' by merge_race_dataframes,  *)
(* calculate_ranks_and_totals adds the tie-break ladder, Bonus, Total and  *)
(* the final Rank, and the age-group lookup is joined in to give Rank_AG.  *)
(* An exception that leaves calculate_points_for_year ends the run in      *)
(* pc = "raised"; a normal return ends it in pc = "returned".              *)
(*                                                                         *)
(* Data frames are sequences of rows (records).  A nullable cell is a      *)
(* sequence of length at most one: NaN is <<>> and the number v is <<v>>.  *)
(* Names are integers that stand for the title-cased 'Naam' strings; their *)
(* order is the lexicographic order of those strings.  The men's and the   *)
(* women's tables go through the same code; the model follows one of them. *)
(***************************************************************************)
EXTENDS Integers, Sequences, FiniteSets, TLC

VARIABLES
    races,        \* the season's input: per race its name, cleaned results, place_string
    year,         \* the year argument of calculate_points_for_year
    df_ag,        \* analyse.py:153-155, the age-group lookup as read
    log,          \* the race names passed to logging.error (processor.py:43)
    error,        \* the exception that left calculate_points_for_year, or "None"
    df_points,    \* the table returned by the latest ResultScorer.calculate_points
    race_dfs,     \* analyse.py:144, the scored tables appended so far
    combined_df,  \* analyse.py:158-161, the merged table, then the standing
    pc            \* position in calculate_points_for_year

vars == <<races, year, df_ag, log, error, df_points, race_dfs, combined_df, pc>>

------------------------------------------------------------------------------
(* Bounds of the model *)

\* races of a season (specification Spec)
MaxRaces == 7
\* rows of a small result table, and values of its sort keys (SpecScore)
MaxRows == 3
MaxKey == 2
\* rows of the largest field (SpecScore); the points curve has 149 entries
MaxField == 151
\* races merged in SpecMerge
MergeRaces == 3
\* races of a call in SpecYear
MaxYearRaces == 2

------------------------------------------------------------------------------
(* Values *)

NaN == <<>>
Val(v) == <<v>>
notna(c) == c # NaN

Min(a, b) == IF a < b THEN a ELSE b

\* A sequence given as a function, with its elements evaluated once.
Concrete(s) == SubSeq(s, 1, Len(s))

RECURSIVE SumSeq(_)
SumSeq(s) == IF s = <<>> THEN 0 ELSE Head(s) + SumSeq(Tail(s))

\* Lexicographic order of two integer sequences of the same length: both the
\* order of a multi-column sort and Python's order of tuples.
TupleLess(a, b) ==
    \E k \in 1..Len(a) : a[k] < b[k] /\ \A m \in 1..(k - 1) : a[m] = b[m]

\* The permutation that sorts keys ascending, equal keys in their original
\* order (a stable sort): element p of the result is the index of the row
\* that comes p-th.
argsort_stable(keys) ==
    LET n == Len(keys)
        pos == Concrete([i \in 1..n |-> 1 + Cardinality({j \in 1..n :
                   \/ TupleLess(keys[j], keys[i])
                   \/ (~TupleLess(keys[i], keys[j]) /\ j < i)})])
    IN Concrete([p \in 1..n |-> CHOOSE i \in 1..n : pos[i] = p])

\* The same with equal keys in reverse original order.
argsort_reversed_ties(keys) ==
    LET n == Len(keys)
        pos == Concrete([i \in 1..n |-> 1 + Cardinality({j \in 1..n :
                   \/ TupleLess(keys[j], keys[i])
                   \/ (~TupleLess(keys[i], keys[j]) /\ j > i)})])
    IN Concrete([p \in 1..n |-> CHOOSE i \in 1..n : pos[i] = p])

\* range_down with the stop value included.
range_down_inclusive(start, stop, step) ==
    LET n == IF start >= stop THEN (start - stop) \div (-step) + 1 ELSE 0
    IN [i \in 1..n |-> start + (i - 1) * step]

\* Python's range(start, stop, step) for a negative step.
range_down(start, stop, step) ==
    LET n == IF start > stop THEN (start - stop + (-step) - 1) \div (-step) ELSE 0
    IN [i \in 1..n |-> start + (i - 1) * step]

------------------------------------------------------------------------------
(* classification/scorer.py *)

\* ResultScorer._get_points_distribution
get_points_distribution ==
    <<250, 240>> \o range_down(230, 170, -5) \o range_down(170, 100, -2)
                 \o range_down(100, 0, -1)

\* sort_values as it would be if the table were left in the order it was read.
sort_values_unsorted(df, by) == {df}

\* DataFrame.sort_values(by=...) of a result table: the tables it may return.
\* With several columns pandas sorts stably (lexsort).  With one column it
\* uses numpy's quicksort, which is not stable: the order of rows with equal
\* keys is not fixed by the code, and the model admits the original order
\* and its reverse.
sort_values(df, by) ==
    LET keys == Concrete([i \in 1..Len(df) |-> [k \in 1..Len(by) |-> df[i][by[k]]]])
        take(perm) == [p \in 1..Len(df) |-> df[perm[p]]]
    IN IF Len(by) = 1
       THEN {take(argsort_stable(keys)), take(argsort_reversed_ties(keys))}
       ELSE {take(argsort_stable(keys))}

\* assign_points with the curve indexed one place too far.
assign_points_shifted(sorted_results) ==
    LET points_distribution == Tail(get_points_distribution)
        num_participants == Len(sorted_results)
        points_to_assign ==
            SubSeq(points_distribution, 1, Min(num_participants, Len(points_distribution)))
        points == points_to_assign
                  \o [i \in 1..(num_participants - Len(points_to_assign)) |-> 1]
    IN [i \in 1..num_participants |->
          [Naam |-> sorted_results[i].Naam, Tijd |-> sorted_results[i].Tijd,
           Plaats |-> sorted_results[i].Plaats, Points |-> points[i], Rank |-> i]]

\* assign_points with no points beyond the end of the curve.
assign_points_zero_floor(sorted_results) ==
    LET points_distribution == get_points_distribution
        num_participants == Len(sorted_results)
        points_to_assign ==
            SubSeq(points_distribution, 1, Min(num_participants, Len(points_distribution)))
        points == points_to_assign
                  \o [i \in 1..(num_participants - Len(points_to_assign)) |-> 0]
    IN [i \in 1..num_participants |->
          [Naam |-> sorted_results[i].Naam, Tijd |-> sorted_results[i].Tijd,
           Plaats |-> sorted_results[i].Plaats, Points |-> points[i], Rank |-> i]]

\* Lines 55-64 of calculate_points, applied to the sorted table.
assign_points(sorted_results) ==
    LET points_distribution == get_points_distribution
        num_participants == Len(sorted_results)
        points_array_length == Len(points_distribution)
        points_to_assign ==
            SubSeq(points_distribution, 1, Min(num_participants, points_array_length))
        points == points_to_assign
                  \o [i \in 1..(num_participants - Len(points_to_assign)) |-> 1]
    IN [i \in 1..num_participants |->
          [Naam |-> sorted_results[i].Naam,
           Tijd |-> sorted_results[i].Tijd,
           Plaats |-> sorted_results[i].Plaats,
           Points |-> points[i],
           Rank |-> i]]

\* ResultScorer.calculate_points: the tables it may return (one per outcome
\* of the sort).  position_column is "None" or a column name.
calculate_points(race_results, sort_column, position_column) ==
    LET by == IF position_column # "None"
              THEN <<sort_column, position_column>>
              ELSE <<sort_column>>
    IN {assign_points(sorted_results) : sorted_results \in sort_values(race_results, by)}

------------------------------------------------------------------------------
(* classification/processor.py *)

\* A frame attribute of ResultProcessor: None, or a frame that has or lacks
\* the columns 'Naam', 'Tijd' and the position column under these names.
None == <<>>
Frame(has_columns, rows) == <<[has_columns |-> has_columns, rows |-> rows]>>

\* The race names of the model as Python strings: str.lower and the
\* substring test ('Borne_B' contains 'Borne').
lower(race) ==
    CASE race = "Sittard" -> "sittard"
      [] race = "Borne" -> "borne"
      [] race = "Hulsbeek" -> "hulsbeek"
      [] race = "Bathmen" -> "bathmen"
      [] race = "Utrecht" -> "utrecht"
      [] race = "Borne_B" -> "borne_b"
      [] OTHER -> "almere"

contains(race, sub) == race = sub \/ (race = "Borne_B" /\ sub = "Borne")

\* The process_results_<race> methods ResultProcessor defines.
processing_methods == {"borne", "sittard", "hulsbeek", "bathmen"}

\* The keys of the category tables of a handler (processor.py:72-94 and
\* 113-118); the handlers of Borne and Bathmen do not use the year.
category_years(method) ==
    CASE method = "sittard" -> {2023, 2024}
      [] method = "hulsbeek" -> {2024}
      [] OTHER -> {2023, 2024, 2025}

\* ResultProcessor.process_results: the frames afterwards, what was logged
\* and the exception raised.  getattr raises AttributeError for a missing
\* method, which line 42 catches and line 43 logs; a handler indexes its
\* category tables with the year (KeyError, not caught) and otherwise
\* leaves the cleaned men's table race.results in df_men.
process_results(result, race, yr) ==
    LET method == lower(race.name)
    IN IF method \notin processing_methods
       THEN [result |-> result, logged |-> <<race.name>>, error |-> "None"]
       ELSE IF yr \notin category_years(method)
       THEN [result |-> result, logged |-> <<>>, error |-> "KeyError"]
       ELSE [result |-> [df_all |-> result.df_all, df_men |-> Frame(TRUE, race.results)],
             logged |-> <<>>, error |-> "None"]

------------------------------------------------------------------------------
(* classification/analyse.py *)

\* process_race, lines 24-48: the ResultProcessor built for the race and the
\* place_string, by the first substring the race name contains.  The model's
\* position column "Plaats" stands for 'Plaats', 'uitslag', 'POS', 'Positie'.
read_race(race) ==
    CASE contains(race.name, "Sittard") ->
            [error |-> "None", place_string |-> "Plaats",
             result |-> [df_all |-> <<race.raw>>, df_men |-> None]]
      [] contains(race.name, "Borne") ->
            [error |-> "None", place_string |-> "None",
             result |-> [df_all |-> None, df_men |-> <<race.raw>>]]
      [] contains(race.name, "Hulsbeek") ->
            [error |-> "None", place_string |-> "Plaats",
             result |-> [df_all |-> <<race.raw>>, df_men |-> None]]
      [] contains(race.name, "Bathmen") ->
            [error |-> "None", place_string |-> "Plaats",
             result |-> [df_all |-> None, df_men |-> <<race.raw>>]]
      [] contains(race.name, "Utrecht") ->
            [error |-> "None", place_string |-> "Plaats",
             result |-> [df_all |-> <<race.raw>>, df_men |-> None]]
      [] OTHER ->
            [error |-> "ValueError", place_string |-> "None",
             result |-> [df_all |-> None, df_men |-> None]]

\* process_race: the exception it raises or the scored tables it may return,
\* and what was logged on the way.  Scoring a frame that is None raises
\* AttributeError (scorer.py:51-53), a frame without the columns KeyError.
process_race(race, yr) ==
    LET read == read_race(race)
        processed == process_results(read.result, race, yr)
        df_men == processed.result.df_men
        failed(logged, exception) == [logged |-> logged, error |-> exception, tables |-> {}]
    IN IF read.error # "None" THEN failed(<<>>, read.error)
       ELSE IF processed.error # "None" THEN failed(processed.logged, processed.error)
       ELSE IF df_men = None THEN failed(processed.logged, "AttributeError")
       ELSE IF ~df_men[1].has_columns THEN failed(processed.logged, "KeyError")
       ELSE [logged |-> processed.logged, error |-> "None",
             tables |-> calculate_points(df_men[1].rows, "Tijd", read.place_string)]

\* process_race, lines 59-65: the columns Naam, Points_<race>, Rank_<race> of
\* a scored table, as a frame whose rows map the race to its cells.
select_columns(df, race) ==
    [columns |-> <<race>>,
     rows |-> [i \in 1..Len(df) |->
                 [Naam |-> df[i].Naam,
                  Points |-> (race :> Val(df[i].Points)),
                  Rank_ |-> (race :> Val(df[i].Rank))]]]

\* The names of a frame's rows, ascending.
sorted_names(df) ==
    LET S == {df.rows[i].Naam : i \in 1..Len(df.rows)}
    IN [i \in 1..Cardinality(S) |->
          CHOOSE x \in S : Cardinality({y \in S : y < x}) = i - 1]

nan_cells(df) == [e \in {df.columns[i] : i \in 1..Len(df.columns)} |-> NaN]

\* The rows pd.merge(left, right, on='Naam', how='outer') makes for one name:
\* every pairing of the name's left rows with its right rows, and where one
\* side has no row for the name, the other side's rows with NaN cells.
merged_rows_of(left, right, name) ==
    LET L == SelectSeq(left.rows, LAMBDA r : r.Naam = name)
        R == SelectSeq(right.rows, LAMBDA r : r.Naam = name)
        pair(l, r) == [Naam |-> name,
                       Points |-> l.Points @@ r.Points,
                       Rank_ |-> l.Rank_ @@ r.Rank_]
        absent(df) == [Points |-> nan_cells(df), Rank_ |-> nan_cells(df)]
    IN IF R = <<>> THEN [i \in 1..Len(L) |-> pair(L[i], absent(right))]
       ELSE IF L = <<>> THEN [j \in 1..Len(R) |-> pair(absent(left), R[j])]
       ELSE [q \in 1..(Len(L) * Len(R)) |->
               pair(L[((q - 1) \div Len(R)) + 1], R[((q - 1) % Len(R)) + 1])]

RECURSIVE concat_rows(_, _, _)
concat_rows(left, right, names) ==
    IF names = <<>> THEN <<>>
    ELSE merged_rows_of(left, right, Head(names))
         \o concat_rows(left, right, Tail(names))

\* pd_merge with how='left': only the names of the left frame are kept.
pd_merge_left(left, right) ==
    [columns |-> left.columns \o right.columns,
     rows |-> concat_rows(left, right, sorted_names(left))]

\* pd_merge with how='inner': only the names present in both frames are kept.
pd_merge_inner(left, right) ==
    [columns |-> left.columns \o right.columns,
     rows |-> concat_rows(left, right,
                  SelectSeq(sorted_names(left),
                            LAMBDA name : \E j \in 1..Len(right.rows) :
                                             right.rows[j].Naam = name))]

\* pd.merge(combined_df, df, on='Naam', how='outer'), analyse.py:82: the union
\* of the keys of both frames, sorted, each with the rows of merged_rows_of.
pd_merge(left, right) ==
    [columns |-> left.columns \o right.columns,
     rows |-> concat_rows(left, right,
                  sorted_names([columns |-> <<>>, rows |-> left.rows \o right.rows]))]

RECURSIVE merge_loop(_, _)
merge_loop(combined, dfs) ==
    IF dfs = <<>> THEN combined
    ELSE merge_loop(pd_merge(combined, Head(dfs)), Tail(dfs))

\* merge_race_dataframes
merge_race_dataframes(dfs) == merge_loop(dfs[1], Tail(dfs))

\* select_n as it would be if the NaN cells were dropped instead of kept last.
select_n_dropna(x, n, ascending) ==
    LET present == SelectSeq(x, LAMBDA c : notna(c))
        perm == argsort_stable([i \in 1..Len(present) |->
                    <<IF ascending THEN present[i][1] ELSE -present[i][1]>>])
        all == [i \in 1..Len(present) |-> present[perm[i]]]
    IN IF n <= 0 THEN <<>> ELSE SubSeq(all, 1, Min(n, Len(all)))

\* Series.nsmallest(n) / Series.nlargest(n) of a row of cells (pandas 2,
\* core/methods/selectn.py): the values in sorted order followed by the NaN
\* cells, cut to the first n.
select_n(x, n, ascending) ==
    LET present == SelectSeq(x, LAMBDA c : notna(c))
        nans == SelectSeq(x, LAMBDA c : ~notna(c))
        perm == argsort_stable([i \in 1..Len(present) |->
                    <<IF ascending THEN present[i][1] ELSE -present[i][1]>>])
        all == [i \in 1..Len(present) |-> present[perm[i]]] \o nans
    IN IF n <= 0 THEN <<>> ELSE SubSeq(all, 1, Min(n, Len(all)))

nsmallest(x, n) == select_n(x, n, TRUE)
nlargest(x, n) == select_n(x, n, FALSE)

\* Series.sum(), which skips NaN.
sum_skipna(x) == SumSeq([i \in 1..Len(x) |-> IF notna(x[i]) THEN x[i][1] ELSE 0])

\* The cells of a row in the frame's Rank_ (Points_) columns.
rank_cells(df, row) == [i \in 1..Len(df.columns) |-> row.Rank_[df.columns[i]]]
points_cells(df, row) == [i \in 1..Len(df.columns) |-> row.Points[df.columns[i]]]

\* analyse.py:104-105, the lambda that fills Top<rank>_Rank.
top_rank(x, rank) ==
    IF Len(nsmallest(x, rank)) > 0
    THEN nsmallest(x, rank)[Len(nsmallest(x, rank))]
    ELSE NaN

\* analyse.py:111, race_count: the Points cells greater than 0 (NaN > 0 is False).
race_count(x) == Cardinality({i \in 1..Len(x) : notna(x[i]) /\ x[i][1] > 0})

\* bonus_points with the 30 points given from five races on.
bonus_points_from_five(count) ==
    15 * (IF count = 4 THEN 1 ELSE 0) + 30 * (IF count >= 5 THEN 1 ELSE 0)

\* analyse.py:112
bonus_points(count) ==
    15 * (IF count = 4 THEN 1 ELSE 0) + 30 * (IF count = 5 THEN 1 ELSE 0)

\* top3_sum with every race counted.
top3_sum_all(x) == sum_skipna(x)

\* analyse.py:113
top3_sum(x) == sum_skipna(nlargest(x, 3))

\* analyse.py:98-114: the tie-break ladder, Bonus and Total of one row.
add_columns(df, row) ==
    LET max_ranks == Len(df.columns)
        bonus == bonus_points(race_count(points_cells(df, row)))
    IN [Naam |-> row.Naam,
        Points |-> row.Points,
        Rank_ |-> row.Rank_,
        TopRank |-> Concrete([k \in 1..max_ranks |-> top_rank(rank_cells(df, row), k)]),
        Bonus |-> bonus,
        Total |-> top3_sum(points_cells(df, row)) + bonus]

\* analyse.py:117-118: the sort key of sort_values(by=sort_col,
\* ascending=[False] + [True] * max_ranks); pandas puts NaN last.
sort_col_key(row) ==
    <<-row.Total>> \o
    [q \in 1..(2 * Len(row.TopRank)) |->
        LET c == row.TopRank[(q + 1) \div 2]
        IN IF q % 2 = 1 THEN (IF notna(c) THEN 0 ELSE 1)
           ELSE (IF notna(c) THEN c[1] ELSE 0)]

\* One element of the tuple of analyse.py:122, as a pair that orders like
\* Python floats: <<0, v>> is the number v and <<1, 0>> is float('inf').
ladder_key(c) == IF notna(c) THEN <<0, -c[1]>> ELSE <<1, 0>>

\* analyse.py:122: tuple([row['Total']] + [...]), its pairs laid end to end.
rank_tuple(row) ==
    <<0, row.Total>> \o
    [q \in 1..(2 * Len(row.TopRank)) |-> ladder_key(row.TopRank[(q + 1) \div 2])[2 - (q % 2)]]

\* rank_min_descending with method='dense': ties take no rank slots.
rank_dense_descending(tuples) ==
    [i \in 1..Len(tuples) |->
        1 + Cardinality({tuples[j] : j \in {q \in 1..Len(tuples) :
                                                TupleLess(tuples[i], tuples[q])}})]

\* Series.rank(method='min', ascending=False) of a series of tuples: one plus
\* the number of strictly greater tuples.
rank_min_descending(tuples) ==
    [i \in 1..Len(tuples) |->
        1 + Cardinality({j \in 1..Len(tuples) : TupleLess(tuples[i], tuples[j])})]

\* calculate_ranks_and_totals
calculate_ranks_and_totals(df) ==
    LET with_columns == Concrete([i \in 1..Len(df.rows) |-> add_columns(df, df.rows[i])])
        perm == argsort_stable(
                    Concrete([i \in 1..Len(with_columns) |-> sort_col_key(with_columns[i])]))
        sorted == Concrete([p \in 1..Len(with_columns) |-> with_columns[perm[p]]])
        ranks == rank_min_descending(
                    Concrete([i \in 1..Len(sorted) |-> rank_tuple(sorted[i])]))
    IN [columns |-> df.columns,
        rows |-> [i \in 1..Len(sorted) |->
                    [Naam |-> sorted[i].Naam,
                     Points |-> sorted[i].Points,
                     Rank_ |-> sorted[i].Rank_,
                     TopRank |-> sorted[i].TopRank,
                     Bonus |-> sorted[i].Bonus,
                     Total |-> sorted[i].Total,
                     Rank |-> ranks[i]]]]

\* analyse.py:169: pd.merge(combined_df, df_ag, on='Naam', how='left').  The
\* rows of the standing keep their order; a row comes once for every row of
\* the lookup with its name, and once with AgeGroup NaN when there is none.
merge_age_groups(left, right) ==
    LET matches(i) == {j \in 1..Len(right) : right[j].Naam = left[i].Naam}
        pairs == {pr \in (1..Len(left)) \X (0..Len(right)) :
                     IF pr[2] = 0 THEN matches(pr[1]) = {} ELSE pr[2] \in matches(pr[1])}
        pos == [pr \in pairs |-> 1 + Cardinality({q \in pairs : TupleLess(q, pr)})]
        at == [p \in 1..Cardinality(pairs) |-> CHOOSE pr \in pairs : pos[pr] = p]
    IN Concrete([p \in 1..Cardinality(pairs) |->
          LET row == left[at[p][1]]
          IN [Naam |-> row.Naam, Points |-> row.Points, Rank_ |-> row.Rank_,
              TopRank |-> row.TopRank, Bonus |-> row.Bonus, Total |-> row.Total,
              Rank |-> row.Rank,
              AgeGroup |-> IF at[p][2] = 0 THEN NaN ELSE Val(right[at[p][2]].AgeGroup)]])

\* groupby_rank with the overall Rank as the value ranked within a group.
groupby_rank_by_ladder(rows) ==
    [i \in 1..Len(rows) |->
        IF notna(rows[i].AgeGroup)
        THEN Val(1 + Cardinality({j \in 1..Len(rows) :
                                     /\ rows[j].AgeGroup = rows[i].AgeGroup
                                     /\ rows[j].Rank < rows[i].Rank}))
        ELSE NaN]

\* groupby_rank with ascending=True: the smallest Total of a group is first.
groupby_rank_ascending(rows) ==
    [i \in 1..Len(rows) |->
        IF notna(rows[i].AgeGroup)
        THEN Val(1 + Cardinality({j \in 1..Len(rows) :
                                     /\ rows[j].AgeGroup = rows[i].AgeGroup
                                     /\ rows[j].Total < rows[i].Total}))
        ELSE NaN]

\* analyse.py:171: groupby('AgeGroup')['Total'].rank(method='min',
\* ascending=False).  groupby leaves out the rows whose key is NaN, and the
\* result has NaN for them.
groupby_rank(rows) ==
    [i \in 1..Len(rows) |->
        IF notna(rows[i].AgeGroup)
        THEN Val(1 + Cardinality({j \in 1..Len(rows) :
                                     /\ rows[j].AgeGroup = rows[i].AgeGroup
                                     /\ rows[j].Total > rows[i].Total}))
        ELSE NaN]

\* analyse.py:165-171 for one outcome of the sort on Rank: the standing with
\* the columns AgeGroup and Rank_AG.
add_age_groups(sorted, ag) ==
    LET merged == merge_age_groups(sorted, ag)
        rank_AG == groupby_rank(merged)
    IN [i \in 1..Len(merged) |->
          [Naam |-> merged[i].Naam, Points |-> merged[i].Points,
           Rank_ |-> merged[i].Rank_, TopRank |-> merged[i].TopRank,
           Bonus |-> merged[i].Bonus, Total |-> merged[i].Total,
           Rank |-> merged[i].Rank, AgeGroup |-> merged[i].AgeGroup,
           Rank_AG |-> rank_AG[i]]]

\* analyse.py:173-174: Rank_AG as text, "<rank> (<AgeGroup>)", held as the
\* pair of its two parts; astype(int) raises ValueError when a Rank_AG is NaN.
format_rank_AG(rows) ==
    IF \E i \in 1..Len(rows) : ~notna(rows[i].Rank_AG)
    THEN [error |-> "ValueError", rows |-> rows]
    ELSE [error |-> "None",
          rows |-> [i \in 1..Len(rows) |->
                      [rows[i] EXCEPT !.Rank_AG = Val(<<rows[i].Rank_AG[1],
                                                        rows[i].AgeGroup[1]>>)]]]

\* analyse.py:179-190: NaN cells and a Bonus of 0 become '' (here NaN); the
\* numeric columns become integers.
format_output(rows) ==
    [i \in 1..Len(rows) |->
        [Naam |-> rows[i].Naam, Points |-> rows[i].Points, Rank_ |-> rows[i].Rank_,
         TopRank |-> rows[i].TopRank,
         Bonus |-> IF rows[i].Bonus = 0 THEN NaN ELSE Val(rows[i].Bonus),
         Total |-> rows[i].Total, Rank |-> rows[i].Rank,
         AgeGroup |-> rows[i].AgeGroup, Rank_AG |-> rows[i].Rank_AG]]

------------------------------------------------------------------------------
(* calculate_points_for_year, analyse.py:143-193 *)

NoFrame == [columns |-> <<>>, rows |-> <<>>]

\* analyse.py:146-149, one pass of the loop: process_race scores the next
\* race and its table is appended, or its exception leaves the function.
ProcessRace ==
    /\ pc = "process"
    /\ Len(race_dfs) < Len(races)
    /\ LET race == races[Len(race_dfs) + 1]
           out == process_race(race, year)
       IN /\ log' = log \o out.logged
          /\ IF out.error # "None"
             THEN /\ error' = out.error
                  /\ pc' = "raised"
                  /\ UNCHANGED <<df_points, race_dfs>>
             ELSE /\ \E scored \in out.tables :
                        /\ df_points' = scored
                        /\ race_dfs' = Append(race_dfs, select_columns(scored, race.race))
                  /\ pc' = IF Len(race_dfs) + 1 = Len(races) THEN "merge" ELSE "process"
                  /\ UNCHANGED error
    /\ UNCHANGED <<races, year, df_ag, combined_df>>

\* analyse.py:158
MergeRaceDataframes ==
    /\ pc = "merge"
    /\ combined_df' = merge_race_dataframes(race_dfs)
    /\ pc' = "ranks"
    /\ UNCHANGED <<races, year, df_ag, log, error, df_points, race_dfs>>

\* analyse.py:161
CalculateRanksAndTotals ==
    /\ pc = "ranks"
    /\ combined_df' = calculate_ranks_and_totals(combined_df)
    /\ pc' = "done"
    /\ UNCHANGED <<races, year, df_ag, log, error, df_points, race_dfs>>

\* analyse.py:165-171: the standing is sorted on Rank, joined with the
\* age-group lookup and given Rank_AG.
AddAgeGroups ==
    /\ pc = "done"
    /\ \E sorted \in sort_values(combined_df.rows, <<"Rank">>) :
          combined_df' = [columns |-> combined_df.columns,
                          rows |-> add_age_groups(sorted, df_ag)]
    /\ pc' = "agegroup"
    /\ UNCHANGED <<races, year, df_ag, log, error, df_points, race_dfs>>

\* analyse.py:173-174
FormatRankAG ==
    /\ pc = "agegroup"
    /\ LET out == format_rank_AG(combined_df.rows)
       IN /\ combined_df' = [columns |-> combined_df.columns, rows |-> out.rows]
          /\ error' = out.error
          /\ pc' = IF out.error # "None" THEN "raised" ELSE "format"
    /\ UNCHANGED <<races, year, df_ag, log, df_points, race_dfs>>

\* analyse.py:179-193
ReturnStanding ==
    /\ pc = "format"
    /\ combined_df' = [columns |-> combined_df.columns,
                       rows |-> format_output(combined_df.rows)]
    /\ pc' = "returned"
    /\ UNCHANGED <<races, year, df_ag, log, error, df_points, race_dfs>>

Next ==
    \/ ProcessRace
    \/ MergeRaceDataframes
    \/ CalculateRanksAndTotals
    \/ AddAgeGroups
    \/ FormatRankAG
    \/ ReturnStanding

\* The state on entry to calculate_points_for_year(path, yr, season) when the
\* age-group file holds the lookup ag.
Enter(season, yr, ag) ==
    /\ races = season
    /\ year = yr
    /\ df_ag = ag
    /\ log = <<>>
    /\ error = "None"
    /\ df_points = <<>>
    /\ race_dfs = <<>>
    /\ combined_df = NoFrame
    /\ pc = "process"

------------------------------------------------------------------------------
(* Inputs *)

PlaceStrings == {"Plaats", "None"}

\* A race name whose branch of process_race gives the place_string.
NameFor(place_string) == IF place_string = "None" THEN "Borne" ELSE "Sittard"

\* A file as the organiser publishes it: title rows above the header, so
\* that the frame read from it has none of the columns under their names.
RawFile == [has_columns |-> FALSE, rows |-> <<>>]

\* An age-group file that lists the participants 1..4.
AgeGroups ==
    <<[Naam |-> 1, AgeGroup |-> "M40"], [Naam |-> 2, AgeGroup |-> "M40"],
      [Naam |-> 3, AgeGroup |-> "M40"], [Naam |-> 4, AgeGroup |-> "M50"]>>

\* The state on entry for a season of 2024 with that age-group file.
Start(season) == Enter(season, 2024, AgeGroups)

\* A result table from a finishing order: the rows are listed last finisher
\* first, with the finishing position as time and as place.
Field(order) ==
    [i \in 1..Len(order) |->
        [Naam |-> order[Len(order) + 1 - i],
         Tijd |-> Len(order) + 1 - i,
         Plaats |-> Len(order) + 1 - i]]

\* Seasons of the main specification: up to MaxRaces races, each one of these
\* finishing orders of the participants 1, 2, 3, listed in this order (the
\* order of the races is varied in SpecMerge).
SeasonOrders == << <<1, 2>>, <<2, 1>>, <<3, 1>>, <<2, 3>>, <<3, 2, 1>> >>

Seasons ==
    UNION {{[i \in 1..n |-> [race |-> i, name |-> NameFor("Plaats"), raw |-> RawFile,
                              results |-> Field(SeasonOrders[f[i]]),
                              place_string |-> "Plaats"]] :
               f \in {g \in [1..n -> 1..Len(SeasonOrders)] :
                         \A i \in 1..(n - 1) : g[i] <= g[i + 1]}} :
           n \in 1..MaxRaces}

\* A season of four races in which participants 1 and 2 end on the same Total
\* (705) with best race ranks 1 and 3.
TieSeason ==
    LET orders == << <<1, 3, 2>>, <<3, 4, 1, 2>>, <<3, 4, 2, 1>>, <<3, 4, 2>> >>
    IN [i \in 1..Len(orders) |->
          [race |-> i, name |-> NameFor("Plaats"), raw |-> RawFile,
           results |-> Field(orders[i]), place_string |-> "Plaats"]]

Init == \E season \in Seasons \cup {TieSeason} : Start(season)

Spec == Init /\ [][Next]_vars

\* Single races (SpecScore): every table of up to MaxRows rows with times and
\* places in 1..MaxKey, and fields around the length of the points curve,
\* each scored with and without a position column.
ScoreTables ==
    UNION {{[i \in 1..n |-> [Naam |-> i, Tijd |-> t[i][1], Plaats |-> t[i][2]]] :
               t \in [1..n -> (1..MaxKey) \X (1..MaxKey)]} :
           n \in 0..MaxRows}

FieldTables ==
    {Field([i \in 1..n |-> i]) : n \in (Len(get_points_distribution) - 1)..MaxField}

InitScore ==
    \E t \in ScoreTables \cup FieldTables, ps \in PlaceStrings :
        Start(<<[race |-> 1, name |-> NameFor(ps), raw |-> RawFile,
                 results |-> t, place_string |-> ps]>>)

SpecScore == InitScore /\ [][Next]_vars

\* Seasons of SpecMerge: up to MergeRaces races in every order, each one of
\* these finishing orders; <<1, 1>> lists participant 1 twice.
MergeOrders == << <<>>, <<1>>, <<2>>, <<1, 2>>, <<2, 1>>, <<2, 3>>, <<1, 1>> >>

MergeSeasons ==
    UNION {{[i \in 1..n |-> [race |-> i, name |-> NameFor("None"), raw |-> RawFile,
                              results |-> Field(MergeOrders[f[i]]),
                              place_string |-> "None"]] :
               f \in [1..n -> 1..Len(MergeOrders)]} :
           n \in 1..MergeRaces}

InitMerge == \E season \in MergeSeasons : Start(season)

SpecMerge == InitMerge /\ [][Next]_vars

\* Calls of calculate_points_for_year (SpecYear): up to MaxYearRaces races of
\* every name, each with one of these finishing orders, for every year and
\* age-group file below.  The file of 'Borne_B' is read either as published
\* or with the columns already under their names.
RaceNames == {"Sittard", "Borne", "Hulsbeek", "Bathmen", "Utrecht", "Borne_B", "Almere"}

YearOrders == << <<1, 2>>, <<2, 1, 3>> >>

Years == {2023, 2024, 2025}

AgeLookups ==
    {AgeGroups,
     <<[Naam |-> 2, AgeGroup |-> "M50"], [Naam |-> 1, AgeGroup |-> "M50"],
       [Naam |-> 3, AgeGroup |-> "M50"]>>,
     <<[Naam |-> 1, AgeGroup |-> "M40"], [Naam |-> 2, AgeGroup |-> "M50"]>>}

YearRaces(i) ==
    {[race |-> i, name |-> nm, raw |-> raw, results |-> Field(YearOrders[o]),
      place_string |-> read_race([name |-> nm, raw |-> raw]).place_string] :
        nm \in RaceNames, o \in 1..Len(YearOrders), raw \in {RawFile}}
    \cup
    {[race |-> i, name |-> "Borne_B",
      raw |-> [has_columns |-> TRUE, rows |-> Field(YearOrders[o])],
      results |-> Field(YearOrders[o]), place_string |-> "None"] :
        o \in 1..Len(YearOrders)}

YearSeasons ==
    UNION {{s \in [1..n -> UNION {YearRaces(i) : i \in 1..n}] :
               \A i \in 1..n : s[i].race = i} :
           n \in 1..MaxYearRaces}

InitYear ==
    \E season \in YearSeasons \cup {TieSeason}, yr \in Years, ag \in AgeLookups :
        Enter(season, yr, ag)

SpecYear == InitYear /\ [][Next]_vars

------------------------------------------------------------------------------
(* Properties of the Event Scorer, checked under SpecScore *)

\* The sort key of a scored row: (sort_column, position_column when given).
SortKey(row, place_string) ==
    IF place_string = "None" THEN <<row.Tijd>> ELSE <<row.Tijd, row.Plaats>>

InputColumns(row) == [Naam |-> row.Naam, Tijd |-> row.Tijd, Plaats |-> row.Plaats]

\* The race whose scored table is df_points.
ScoredRace == races[Len(race_dfs)]

\* C1: for an event with N >= 0 result rows, calculate_points returns the N
\* rows, ranks them 1..N with no gap and no repeat, gives a row with a
\* strictly smaller sort key a strictly smaller rank, and gives rows with
\* equal sort keys distinct consecutive ranks.
C1_RanksFollowSortOrder ==
    Len(race_dfs) > 0 =>
        LET N == Len(ScoredRace.results)
            key(i) == SortKey(df_points[i], ScoredRace.place_string)
        IN /\ Len(df_points) = N
           /\ \A x \in {ScoredRace.results[i] : i \in 1..N} :
                 Cardinality({i \in 1..N : ScoredRace.results[i] = x})
                     = Cardinality({i \in 1..N : InputColumns(df_points[i]) = x})
           /\ \A r \in 1..N : Cardinality({i \in 1..N : df_points[i].Rank = r}) = 1
           /\ \A i \in 1..N : df_points[i].Rank \in 1..N
           /\ \A i, j \in 1..N :
                 TupleLess(key(i), key(j)) => df_points[i].Rank < df_points[j].Rank
           /\ \A i, j \in 1..N :
                 (key(i) = key(j) /\ df_points[i].Rank < df_points[j].Rank) =>
                     \A m \in 1..N :
                         (df_points[i].Rank < df_points[m].Rank
                             /\ df_points[m].Rank < df_points[j].Rank) => key(m) = key(i)

\* A scored event of three rows, sorted on the time alone, in which two rows
\* share their time, a third is strictly faster, and the sort moved a row.
C1_Witness ==
    /\ Len(race_dfs) > 0
    /\ ScoredRace.place_string = "None"
    /\ Len(df_points) = 3
    /\ \E i, j, m \in 1..3 :
          /\ i # j
          /\ df_points[i].Tijd = df_points[j].Tijd
          /\ df_points[m].Tijd < df_points[i].Tijd
          /\ df_points[m].Rank = 1
    /\ \E i \in 1..3 : ScoredRace.results[i] # InputColumns(df_points[i])

\* C2: every scored row has the points-curve value at index rank-1 (counted
\* from 0) when its rank is within the curve, and exactly 1 point beyond it.
C2_PointsFromCurve ==
    \A i \in 1..Len(df_points) :
        df_points[i].Points =
            IF df_points[i].Rank <= Len(get_points_distribution)
            THEN get_points_distribution[df_points[i].Rank]
            ELSE 1

\* A scored field longer than the curve: the winner has 250 points, the last
\* rank of the curve its value, and the ranks behind it 1 point each.
C2_Witness ==
    /\ Len(df_points) > Len(get_points_distribution) + 1
    /\ df_points[1].Points = 250
    /\ df_points[2].Points = 240
    /\ \A i \in 1..Len(df_points) :
          df_points[i].Rank > Len(get_points_distribution) => df_points[i].Points = 1

\* C3: within a scored event the points do not increase with the rank, and
\* every scored row has at least 1 point.
C3_PointsNonIncreasing ==
    /\ \A i, j \in 1..Len(df_points) :
          df_points[i].Rank < df_points[j].Rank
              => df_points[i].Points >= df_points[j].Points
    /\ \A i \in 1..Len(df_points) : df_points[i].Points >= 1

\* A scored field in which the points strictly fall between two ranks and two
\* ranks beyond the curve share the floor of 1 point.
C3_Witness ==
    /\ \E i, j \in 1..Len(df_points) :
          /\ df_points[i].Rank < df_points[j].Rank
          /\ df_points[i].Points > df_points[j].Points
    /\ \E i, j \in 1..Len(df_points) :
          /\ Len(get_points_distribution) < df_points[i].Rank
          /\ df_points[i].Rank < df_points[j].Rank
          /\ df_points[i].Points = 1
          /\ df_points[j].Points = 1

------------------------------------------------------------------------------
(* Properties of the Series Aggregator, checked under Spec *)

Standing == combined_df.rows

\* The races a row of the standing has a result in, and its cells there.
Contested(row) == {e \in DOMAIN row.Points : notna(row.Points[e])}
PointsIn(row, e) == row.Points[e][1]
RankIn(row, e) == row.Rank_[e][1]

RECURSIVE PointsSum(_, _)
PointsSum(row, S) ==
    IF S = {} THEN 0
    ELSE LET e == CHOOSE x \in S : TRUE
         IN PointsIn(row, e) + PointsSum(row, S \ {e})

\* C4: in the standing every Total is the sum of the participant's 3 largest
\* present race points (of all of them when fewer than 3 races were
\* contested) plus Bonus; absent races add nothing.
C4_TotalIsTopThreePlusBonus ==
    pc = "done" =>
        \A i \in 1..Len(Standing) :
            LET row == Standing[i]
            IN /\ \E S \in SUBSET Contested(row) :
                    /\ Cardinality(S) = Min(3, Cardinality(Contested(row)))
                    /\ \A e \in S, f \in Contested(row) \ S :
                          PointsIn(row, e) >= PointsIn(row, f)
                    /\ row.Total = PointsSum(row, S) + row.Bonus
               /\ row.Total >= row.Bonus
               /\ row.Bonus >= 0

\* A standing with a participant of fewer than 3 races next to a participant
\* of more than 3 races with a bonus and a race that does not count.
C4_Witness ==
    /\ pc = "done"
    /\ \E i, j \in 1..Len(Standing) :
          /\ Cardinality(Contested(Standing[i])) < 3
          /\ Cardinality(Contested(Standing[i])) < Len(combined_df.columns)
          /\ Standing[i].Total = PointsSum(Standing[i], Contested(Standing[i]))
          /\ Cardinality(Contested(Standing[j])) > 3
          /\ Standing[j].Bonus > 0
          /\ Standing[j].Total
                < PointsSum(Standing[j], Contested(Standing[j])) + Standing[j].Bonus

\* The number of races in which a row has strictly positive points.
PositiveRaces(row) ==
    Cardinality({e \in Contested(row) : PointsIn(row, e) > 0})

\* C5: Bonus is 15 for exactly 4 races with positive points, 30 for exactly
\* 5, and 0 for every other count, also above 5, whatever the points are.
C5_BonusStepFunction ==
    pc = "done" =>
        \A i \in 1..Len(Standing) :
            Standing[i].Bonus =
                CASE PositiveRaces(Standing[i]) = 4 -> 15
                  [] PositiveRaces(Standing[i]) = 5 -> 30
                  [] OTHER -> 0

\* A standing with participants of 4, of 5 and of more than 5 races.
C5_Witness ==
    /\ pc = "done"
    /\ \E i \in 1..Len(Standing) :
          PositiveRaces(Standing[i]) = 4 /\ Standing[i].Bonus = 15
    /\ \E i \in 1..Len(Standing) :
          PositiveRaces(Standing[i]) = 5 /\ Standing[i].Bonus = 30
    /\ \E i \in 1..Len(Standing) :
          PositiveRaces(Standing[i]) > 5 /\ Standing[i].Bonus = 0

\* Two rows have the same composite key (Total, Top1_Rank, Top2_Rank, ...).
SameKey(a, b) == a.Total = b.Total /\ a.TopRank = b.TopRank

\* Row a has the better tie-break ladder: at the first step where the
\* ladders differ both have a rank there and a's is the smaller.
BetterLadder(a, b) ==
    \E k \in 1..Len(a.TopRank) :
        /\ \A m \in 1..(k - 1) : a.TopRank[m] = b.TopRank[m]
        /\ notna(a.TopRank[k])
        /\ notna(b.TopRank[k])
        /\ a.TopRank[k][1] < b.TopRank[k][1]

\* C6: the final Rank is a 'min' competition ranking over the composite key:
\* equal keys share a Rank and only equal keys do; a greater Total, or an
\* equal Total with a better ladder (a smaller rank at the first step where
\* the ladders differ), gives a strictly smaller Rank; every Rank is 1 plus
\* the number of rows ranked strictly ahead, so ties use up rank slots.
\* (C7 is about a ladder step that one of the two rows lacks.)
C6_MinRankingOverCompositeKey ==
    pc = "done" =>
        \A i, j \in 1..Len(Standing) :
            LET a == Standing[i]
                b == Standing[j]
            IN /\ SameKey(a, b) <=> a.Rank = b.Rank
               /\ a.Total > b.Total => a.Rank < b.Rank
               /\ (a.Total = b.Total /\ BetterLadder(a, b)) => a.Rank < b.Rank
               /\ a.Rank = 1 + Cardinality({q \in 1..Len(Standing) :
                                               Standing[q].Rank < a.Rank})

\* A standing in which two participants have the same Total, the one with
\* best race rank 1 is ranked ahead of the one with best race rank 3, and
\* a standing's tie leaves a rank slot unused.
C6_Witness ==
    /\ pc = "done"
    /\ \E i, j \in 1..Len(Standing) :
          /\ Standing[i].Total = Standing[j].Total
          /\ Standing[i].TopRank[1] = Val(1)
          /\ Standing[j].TopRank[1] = Val(3)
          /\ Standing[i].Rank < Standing[j].Rank

\* A standing with two rows tied on the whole key and a row behind them.
C6_TieWitness ==
    /\ pc = "done"
    /\ \E i, j, q \in 1..Len(Standing) :
          /\ i # j
          /\ SameKey(Standing[i], Standing[j])
          /\ Standing[q].Rank = Standing[i].Rank + 2

\* C7: of two participants with the same Total and the same Top1..Top(k-1)
\* ranks, the one who has no k-th best race rank is ranked strictly behind
\* the one who has.
C7_MissingRankSortsWorse ==
    pc = "done" =>
        \A i, j \in 1..Len(Standing) :
            LET a == Standing[i]
                b == Standing[j]
            IN (/\ a.Total = b.Total
                /\ \E k \in 1..Len(a.TopRank) :
                      /\ \A m \in 1..(k - 1) : a.TopRank[m] = b.TopRank[m]
                      /\ notna(a.TopRank[k])
                      /\ ~notna(b.TopRank[k]))
               => a.Rank < b.Rank

\* C8: Topk_Rank, for k from 1 to the number of races, is the k-th smallest
\* of the participant's present race ranks, and NaN when the participant
\* contested fewer than k races.
C8_TopRankIsKthSmallest ==
    pc = "done" =>
        \A i \in 1..Len(Standing) :
            LET row == Standing[i]
            IN /\ Len(row.TopRank) = Len(combined_df.columns)
               /\ \A k \in 1..Len(combined_df.columns) :
                     IF k <= Cardinality(Contested(row))
                     THEN /\ notna(row.TopRank[k])
                          /\ Cardinality({e \in Contested(row) :
                                 RankIn(row, e) < row.TopRank[k][1]}) < k
                          /\ Cardinality({e \in Contested(row) :
                                 RankIn(row, e) <= row.TopRank[k][1]}) >= k
                     ELSE row.TopRank[k] = NaN

\* A standing with a participant whose ladder has different ranks on its
\* first steps and NaN on its last.
C8_Witness ==
    /\ pc = "done"
    /\ \E i \in 1..Len(Standing) :
          /\ Cardinality(Contested(Standing[i])) >= 3
          /\ Cardinality(Contested(Standing[i])) < Len(combined_df.columns)
          /\ Standing[i].TopRank[1] # Standing[i].TopRank[3]
          /\ Standing[i].TopRank[Len(combined_df.columns)] = NaN

------------------------------------------------------------------------------
(* Properties of the merge, checked under SpecMerge *)

NamesOf(df) == {df.rows[i].Naam : i \in 1..Len(df.rows)}

\* No name has two rows in the frame.
UniqueNames(df) ==
    \A i, j \in 1..Len(df.rows) : df.rows[i].Naam = df.rows[j].Naam => i = j

\* Every scored table of the season has at most one row per name.
UniquePerEvent == \A i \in 1..Len(race_dfs) : UniqueNames(race_dfs[i])

\* What a standing says about the participants, whatever the order of its
\* rows and columns.
Outcome(df) ==
    {[Naam |-> df.rows[i].Naam, Points |-> df.rows[i].Points,
      Bonus |-> df.rows[i].Bonus, Total |-> df.rows[i].Total,
      Rank |-> df.rows[i].Rank] : i \in 1..Len(df.rows)}

\* C9: with unique names per event, merging the scored tables in any other
\* order and ranking the result gives every participant the same race
\* points, Bonus, Total and Rank as the standing.
C9_MergeOrderInvariant ==
    (pc = "done" /\ UniquePerEvent) =>
        \A p \in Permutations(1..Len(race_dfs)) :
            Outcome(calculate_ranks_and_totals(merge_race_dataframes(
                        [i \in 1..Len(race_dfs) |-> race_dfs[p[i]]])))
                = Outcome(combined_df)

\* A standing of three races with unique names in which a participant of the
\* first race also ran a later one and another participant only a later one.
C9_Witness ==
    /\ pc = "done"
    /\ UniquePerEvent
    /\ Len(race_dfs) >= 3
    /\ \E i \in 2..Len(race_dfs) :
          /\ NamesOf(race_dfs[1]) \cap NamesOf(race_dfs[i]) # {}
          /\ NamesOf(race_dfs[i]) \ NamesOf(race_dfs[1]) # {}
    /\ \E i, j \in 1..Len(Standing) : Standing[i].Rank # Standing[j].Rank

\* C10: with at most one row per name in every scored table, the merged
\* table has exactly one row per name that occurs in any event, with the
\* event's points and rank where the participant took part and NaN (not 0)
\* where not, and no prefix of the merges has two rows for a name.
C10_OneRowPerName ==
    (pc \in {"ranks", "done"} /\ UniquePerEvent) =>
        /\ UniqueNames(combined_df)
        /\ NamesOf(combined_df) = UNION {NamesOf(race_dfs[i]) : i \in 1..Len(race_dfs)}
        /\ \A q \in 1..Len(Standing), i \in 1..Len(race_dfs) :
              LET row == Standing[q]
                  e == race_dfs[i].columns[1]
                  own == {m \in 1..Len(race_dfs[i].rows) :
                             race_dfs[i].rows[m].Naam = row.Naam}
              IN IF own = {}
                 THEN row.Points[e] = NaN /\ row.Rank_[e] = NaN
                 ELSE \A m \in own :
                         /\ row.Points[e] = race_dfs[i].rows[m].Points[e]
                         /\ row.Rank_[e] = race_dfs[i].rows[m].Rank_[e]
        /\ \A k \in 1..Len(race_dfs) :
              UniqueNames(merge_race_dataframes(SubSeq(race_dfs, 1, k)))

\* A merged table of three races with unique names: two of the races have
\* the same results, and a participant of only one race has NaN elsewhere.
C10_Witness ==
    /\ pc = "ranks"
    /\ UniquePerEvent
    /\ Len(race_dfs) >= 3
    /\ \E i, j \in 1..Len(race_dfs) :
          i # j /\ races[i].results = races[j].results /\ races[i].results # <<>>
    /\ \E q \in 1..Len(Standing) :
          Cardinality({e \in DOMAIN Standing[q].Points : Standing[q].Points[e] # NaN}) = 1


------------------------------------------------------------------------------
(* Properties of the age-group ranking, checked under SpecYear *)

\* The standing carries the columns AgeGroup and Rank_AG.
HasAgeGroups == pc \in {"agegroup", "format", "returned"}

\* The rank part of a row's Rank_AG: the number of analyse.py:171, and the
\* number in front of the text of analyse.py:173 afterwards.
RankAG(row) == IF pc = "agegroup" THEN row.Rank_AG[1] ELSE row.Rank_AG[1][1]

\* The rows of the standing in the age group of row i.
GroupOf(i) ==
    {j \in 1..Len(Standing) : Standing[j].AgeGroup = Standing[i].AgeGroup}

\* C11: with age-group data, a participant's age-group rank is 1 plus the
\* number of participants of the same AgeGroup with a strictly greater Total;
\* equal Totals in a group share the rank, whatever their overall Rank.
C11_AgeGroupRankByTotal ==
    HasAgeGroups =>
        \A i \in 1..Len(Standing) :
            notna(Standing[i].AgeGroup) =>
                /\ notna(Standing[i].Rank_AG)
                /\ RankAG(Standing[i])
                      = 1 + Cardinality({j \in GroupOf(i) :
                                            Standing[j].Total > Standing[i].Total})
                /\ \A j \in GroupOf(i) :
                      Standing[j].Total = Standing[i].Total
                          => RankAG(Standing[j]) = RankAG(Standing[i])

\* A returned standing in which two participants of one age group have the
\* same Total and the same age-group rank but different overall Ranks, and a
\* third of that group has a greater Total and a better age-group rank.
C11_Witness ==
    /\ pc = "returned"
    /\ \E i, j, k \in 1..Len(Standing) :
          /\ j \in GroupOf(i)
          /\ k \in GroupOf(i)
          /\ Standing[i].Total = Standing[j].Total
          /\ Standing[i].Rank < Standing[j].Rank
          /\ RankAG(Standing[i]) = RankAG(Standing[j])
          /\ Standing[k].Total > Standing[i].Total
          /\ RankAG(Standing[k]) < RankAG(Standing[i])


\* The names the age-group file lists.
LookupNames == {df_ag[i].Naam : i \in 1..Len(df_ag)}

\* Every race of the call was processed by its handler and scored.
AllRacesScored == Len(race_dfs) = Len(races) /\ log = <<>>

\* C12: when every race was processed and scored, a participant who is not in
\* the age-group lookup is no error: the call returns the standing, with an
\* empty age-group rank for that participant and the age-group ranks of the
\* listed participants computed among themselves.
C12_MissingAgeGroupIsNoError ==
    (AllRacesScored /\ pc \in {"raised", "returned"}) =>
        /\ pc = "returned"
        /\ \A i \in 1..Len(Standing) :
              IF Standing[i].Naam \in LookupNames
              THEN /\ notna(Standing[i].Rank_AG)
                   /\ RankAG(Standing[i])
                         = 1 + Cardinality({j \in GroupOf(i) :
                                               Standing[j].Total > Standing[i].Total})
              ELSE ~notna(Standing[i].Rank_AG)


------------------------------------------------------------------------------
(* Properties of the error handling, checked under SpecYear *)

\* The race has no handling rule: no process_results_<race> method, or a
\* year that is not in the category tables of its method.
Unhandled(race) ==
    \/ lower(race.name) \notin processing_methods
    \/ year \notin category_years(lower(race.name))

\* process_results has been called for race i of the call: process_race
\* built a ResultProcessor for it, and the loop has reached it.
ProcessResultsCalled(i) ==
    /\ read_race(races[i]).error = "None"
    /\ \/ i <= Len(race_dfs)
       \/ pc = "raised" /\ i = Len(race_dfs) + 1

Logged(name) == \E k \in 1..Len(log) : log[k] = name

\* C13: once process_results has been called for a race without a handling
\* rule, an exception has left it: the call is over with that race unscored,
\* and process_results did not return normally (its only normal return for
\* such a race is after the logging.error of processor.py:43).
C13_UnhandledRaceIsFatal ==
    \A i \in 1..Len(races) :
        (Unhandled(races[i]) /\ ProcessResultsCalled(i)) =>
            /\ pc = "raised"
            /\ Len(race_dfs) = i - 1
            /\ ~Logged(races[i].name)


\* C14: a standing is returned only when every race of the call was
\* processed by its handling rule and scored: the standing has the columns
\* of all the requested races, none of them is a race without a handling
\* rule, and no processing failure was passed over on the way.
C14_SeasonScoredAtomically ==
    pc = "returned" =>
        /\ Len(race_dfs) = Len(races)
        /\ combined_df.columns = [i \in 1..Len(races) |-> races[i].race]
        /\ \A i \in 1..Len(races) : ~Unhandled(races[i])
        /\ log = <<>>


------------------------------------------------------------------------------
(* The points curve, checked under SpecScore *)

Curve == get_points_distribution

\* The shape of the curve: 250, 240, 230, then steps of 5 down to 170, steps
\* of 2 down to 100 and steps of 1 down to 1, each segment at these places.
CurveShape(to170, to100, last) ==
    /\ Len(Curve) = last
    /\ Curve[1] = 250 /\ Curve[2] = 240 /\ Curve[3] = 230
    /\ \A i \in 3..(to170 - 1) : Curve[i] - Curve[i + 1] = 5
    /\ Curve[to170] = 170
    /\ \A i \in to170..(to100 - 1) : Curve[i] - Curve[i + 1] = 2
    /\ Curve[to100] = 100
    /\ \A i \in to100..(last - 1) : Curve[i] - Curve[i + 1] = 1
    /\ Curve[last] = 1

CurveNonIncreasing == \A i \in 1..(Len(Curve) - 1) : Curve[i] >= Curve[i + 1]

\* A field at least as long as the curve is handed the curve, rank by rank.
CurveHandedOut ==
    Len(df_points) >= Len(Curve) =>
        \A i \in 1..Len(Curve) : df_points[i].Rank = i /\ df_points[i].Points = Curve[i]

\* C15 as stated: the curve calculate_points has fetched is 250, 240, then
\* steps of 5 down to 170, steps of 2 down to 100, steps of 1 down to 1; it
\* does not increase, ends at 1, and has about 185 entries (within a tenth
\* of 185).
C15_CurveOfAbout185 ==
    Len(race_dfs) > 0 =>
        /\ \E to170, to100 \in 1..Len(Curve) : CurveShape(to170, to100, Len(Curve))
        /\ CurveNonIncreasing
        /\ Curve[Len(Curve)] = 1
        /\ Len(Curve) \in 167..203

\* C15, amended: the curve calculate_points has fetched is 250, 240, 230,
\* then steps of 5 down to 170 (its 15th entry), steps of 2 down to 100 (its
\* 50th), steps of 1 down to 1; it does not increase, ends at 1, and has
\* exactly 149 entries, which a field of 149 or more finishers receives in
\* order.
C15_CurveOf149 ==
    Len(race_dfs) > 0 =>
        /\ CurveShape(15, 50, 149)
        /\ CurveNonIncreasing
        /\ Curve[Len(Curve)] = 1
        /\ CurveHandedOut

\* A scored field that reaches the end of the curve: ranks 15, 50 and 149 have
\* 170, 100 and 1 points.
C15_Witness ==
    /\ Len(df_points) >= 149
    /\ df_points[15].Points = 170
    /\ df_points[50].Points = 100
    /\ df_points[149].Points = 1


------------------------------------------------------------------------------
(* Age-group rank and overall Rank, checked under Spec *)

\* C16: for two participants of the same AgeGroup, the one with the strictly
\* smaller overall Rank has an age-group rank that is less than or equal to
\* the other's.
C16_AgeGroupRankFollowsRank ==
    HasAgeGroups =>
        \A i, j \in 1..Len(Standing) :
            (/\ notna(Standing[i].AgeGroup)
             /\ j \in GroupOf(i)
             /\ Standing[i].Rank < Standing[j].Rank)
                => RankAG(Standing[i]) <= RankAG(Standing[j])

\* A returned standing of six or more races in which, within one age group,
\* a better overall Rank comes with a strictly better age-group rank for one
\* pair and with the same age-group rank for another.
C16_Witness ==
    /\ pc = "returned"
    /\ Len(combined_df.columns) >= 6
    /\ \E i, j \in 1..Len(Standing) :
          /\ j \in GroupOf(i)
          /\ Standing[i].Rank < Standing[j].Rank
          /\ RankAG(Standing[i]) < RankAG(Standing[j])
    /\ \E i, j \in 1..Len(Standing) :
          /\ j \in GroupOf(i)
          /\ Standing[i].Rank < Standing[j].Rank
          /\ RankAG(Standing[i]) = RankAG(Standing[j])

====
